---------------------------- MODULE Spec2Model ----------------------------
(***************************************************************************)
(* Model of airscan-id.c: the generic id <-> name lookup engine (id_name,  *)
(* id_by_name), the six static name tables and the wrappers that bind the  *)
(* engine to them.                                                         *)
(*                                                                         *)
(* A C string is a sequence of ASCII codes (the terminating NUL is the     *)
(* position after the last element).  A table is the sequence of the       *)
(* entries its initializer declares; an index at or past its length is     *)
(* memory the array does not own.                                          *)
(***************************************************************************)
EXTENDS Integers, Sequences, FiniteSets, TLC

(***************************** bounds **************************************)
\* Largest id the callers pass (besides SANE_CAP_INACTIVE and BeyondId).
MaxId == 7
\* Case variants of a name: the letters at positions 1..MaxToggle are toggled.
MaxToggle == 2
\* How many entries past the declared end of an unterminated table a scan
\* may read before the run is cut (the last such read ends the scan).
MaxOverrun == 2
\* Number of concurrent callers of SpecConc.
NumThreads == 2
\* Longest table (sentinel not counted) of SpecEngine.
MaxLen == 3

(***************************** C strings ***********************************)
\* The null pointer of type const char*.
NULL == <<-1>>
\* A pointer that is neither NULL nor the address of a string: NULL + 1.
BADPTR == <<-2>>

\* "eSCL"
STR_eSCL ==
    <<101, 83, 67, 76>>
\* "WSD"
STR_WSD ==
    <<87, 83, 68>>
\* "Flatbed"
OPTVAL_SOURCE_PLATEN ==
    <<70, 108, 97, 116, 98, 101, 100>>
\* "ADF"
OPTVAL_SOURCE_ADF_SIMPLEX ==
    <<65, 68, 70>>
\* "ADF Duplex"
OPTVAL_SOURCE_ADF_DUPLEX ==
    <<65, 68, 70, 32, 68, 117, 112, 108, 101, 120>>
\* "Halftone"
SANE_VALUE_SCAN_MODE_HALFTONE ==
    <<72, 97, 108, 102, 116, 111, 110, 101>>
\* "Gray"
SANE_VALUE_SCAN_MODE_GRAY ==
    <<71, 114, 97, 121>>
\* "Color"
SANE_VALUE_SCAN_MODE_COLOR ==
    <<67, 111, 108, 111, 114>>
\* "image/jpeg"
STR_image_jpeg ==
    <<105, 109, 97, 103, 101, 47, 106, 112, 101, 103>>
\* "image/tiff"
STR_image_tiff ==
    <<105, 109, 97, 103, 101, 47, 116, 105, 102, 102>>
\* "image/png"
STR_image_png ==
    <<105, 109, 97, 103, 101, 47, 112, 110, 103>>
\* "application/pdf"
STR_application_pdf ==
    <<97, 112, 112, 108, 105, 99, 97, 116, 105, 111, 110, 47, 112, 100, 102>>
\* "application/bmp"
STR_application_bmp ==
    <<97, 112, 112, 108, 105, 99, 97, 116, 105, 111, 110, 47, 98, 109, 112>>
\* "left"
OPTVAL_JUSTIFICATION_X_LEFT ==
    <<108, 101, 102, 116>>
\* "center"
OPTVAL_JUSTIFICATION_X_CENTER ==
    <<99, 101, 110, 116, 101, 114>>
\* "right"
OPTVAL_JUSTIFICATION_X_RIGHT ==
    <<114, 105, 103, 104, 116>>
\* "none"
OPTVAL_JUSTIFICATION_X_NONE ==
    <<110, 111, 110, 101>>
\* "PROTO_OP_NONE"
STR_PROTO_OP_NONE ==
    <<80, 82, 79, 84, 79, 95, 79, 80, 95, 78, 79, 78, 69>>
\* "PROTO_OP_PRECHECK"
STR_PROTO_OP_PRECHECK ==
    <<80, 82, 79, 84, 79, 95, 79, 80, 95, 80, 82, 69, 67, 72, 69, 67, 75>>
\* "PROTO_OP_SCAN"
STR_PROTO_OP_SCAN ==
    <<80, 82, 79, 84, 79, 95, 79, 80, 95, 83, 67, 65, 78>>
\* "PROTO_OP_LOAD"
STR_PROTO_OP_LOAD ==
    <<80, 82, 79, 84, 79, 95, 79, 80, 95, 76, 79, 65, 68>>
\* "PROTO_OP_CHECK"
STR_PROTO_OP_CHECK ==
    <<80, 82, 79, 84, 79, 95, 79, 80, 95, 67, 72, 69, 67, 75>>
\* "PROTO_OP_CLEANUP"
STR_PROTO_OP_CLEANUP ==
    <<80, 82, 79, 84, 79, 95, 79, 80, 95, 67, 76, 69, 65, 78, 85, 80>>
\* "PROTO_OP_FINISH"
STR_PROTO_OP_FINISH ==
    <<80, 82, 79, 84, 79, 95, 79, 80, 95, 70, 73, 78, 73, 83, 72>>

\* Strings the callers pass that no table declares.
\* "bogus"
STR_bogus ==
    <<98, 111, 103, 117, 115>>
\* ""
STR_empty ==
    <<>>

(***************************** libc ****************************************)
\* tolower() in the C locale.
tolower(c) == IF c >= 65 /\ c <= 90 THEN c + 32 ELSE c

\* s[k] of a NUL-terminated string, k counted from 1.
CharAt(s, k) == IF k <= Len(s) THEN s[k] ELSE 0

RECURSIVE strcasecmp_from(_, _, _)
strcasecmp_from(s1, s2, k) ==
    LET c1 == tolower(CharAt(s1, k))
        c2 == tolower(CharAt(s2, k))
    IN  IF c1 # c2 THEN c1 - c2
        ELSE IF c1 = 0 THEN 0
        ELSE strcasecmp_from(s1, s2, k + 1)

\* strcasecmp(s1, s2): 0 iff the strings are equal ignoring ASCII case.
strcasecmp(s1, s2) == strcasecmp_from(s1, s2, 1)

RECURSIVE strcmp_from(_, _, _)
strcmp_from(s1, s2, k) ==
    LET c1 == CharAt(s1, k)
        c2 == CharAt(s2, k)
    IN  IF c1 # c2 THEN c1 - c2
        ELSE IF c1 = 0 THEN 0
        ELSE strcmp_from(s1, s2, k + 1)

\* strcmp(s1, s2): 0 iff the strings are equal.
strcmp(s1, s2) == strcmp_from(s1, s2, 1)

\* The call cmp(s1, s2) through the comparator pointer.
CallCmp(cmp, s1, s2) ==
    IF cmp = "strcasecmp" THEN strcasecmp(s1, s2) ELSE strcmp(s1, s2)

\* strchr(s, c): the position (from 1) of the first c in s, 0 for NULL.
strchr(s, c) ==
    IF \E k \in 1..Len(s) : s[k] = c
    THEN CHOOSE k \in 1..Len(s) : s[k] = c /\ \A j \in 1..(k - 1) : s[j] # c
    ELSE 0

(***************************** identifiers *********************************)
\* enum ID_PROTO
ID_PROTO_ESCL == 0
ID_PROTO_WSD == 1
\* enum ID_SOURCE
ID_SOURCE_PLATEN == 0
ID_SOURCE_ADF_SIMPLEX == 1
ID_SOURCE_ADF_DUPLEX == 2
\* enum ID_COLORMODE
ID_COLORMODE_COLOR == 0
ID_COLORMODE_GRAYSCALE == 1
ID_COLORMODE_BW1 == 2
\* enum ID_FORMAT
ID_FORMAT_JPEG == 0
ID_FORMAT_TIFF == 1
ID_FORMAT_PNG == 2
ID_FORMAT_PDF == 3
ID_FORMAT_BMP == 4
\* enum ID_JUSTIFICATION_X
ID_JUSTIFICATION_X_LEFT == 0
ID_JUSTIFICATION_X_CENTER == 1
ID_JUSTIFICATION_X_RIGHT == 2
\* SANE capability flag (1 << 5), used as an id by the justification table
SANE_CAP_INACTIVE == 32
\* enum PROTO_OP
PROTO_OP_NONE == 0
PROTO_OP_PRECHECK == 1
PROTO_OP_SCAN == 2
PROTO_OP_LOAD == 3
PROTO_OP_CHECK == 4
PROTO_OP_CLEANUP == 5
PROTO_OP_FINISH == 6

(***************************** tables **************************************)
\* One id_name_table entry.
Entry(id, name) == [id |-> id, name |-> name]

id_proto_name_table ==
    << Entry(ID_PROTO_ESCL, STR_eSCL),
       Entry(ID_PROTO_WSD, STR_WSD),
       Entry(-1, NULL) >>

id_source_sane_name_table ==
    << Entry(ID_SOURCE_PLATEN, OPTVAL_SOURCE_PLATEN),
       Entry(ID_SOURCE_ADF_SIMPLEX, OPTVAL_SOURCE_ADF_SIMPLEX),
       Entry(ID_SOURCE_ADF_DUPLEX, OPTVAL_SOURCE_ADF_DUPLEX),
       Entry(-1, NULL) >>

id_colormode_sane_name_table ==
    << Entry(ID_COLORMODE_BW1, SANE_VALUE_SCAN_MODE_HALFTONE),
       Entry(ID_COLORMODE_GRAYSCALE, SANE_VALUE_SCAN_MODE_GRAY),
       Entry(ID_COLORMODE_COLOR, SANE_VALUE_SCAN_MODE_COLOR),
       Entry(-1, NULL) >>

id_format_mime_name_table ==
    << Entry(ID_FORMAT_JPEG, STR_image_jpeg),
       Entry(ID_FORMAT_TIFF, STR_image_tiff),
       Entry(ID_FORMAT_PNG, STR_image_png),
       Entry(ID_FORMAT_PDF, STR_application_pdf),
       Entry(ID_FORMAT_BMP, STR_application_bmp),
       Entry(-1, NULL) >>

\* The justification table with the "none" name filed under the unknown id -1
\* instead of SANE_CAP_INACTIVE.
id_justification_x_sane_name_table_none_unknown ==
    << Entry(ID_JUSTIFICATION_X_LEFT, OPTVAL_JUSTIFICATION_X_LEFT),
       Entry(ID_JUSTIFICATION_X_CENTER, OPTVAL_JUSTIFICATION_X_CENTER),
       Entry(ID_JUSTIFICATION_X_RIGHT, OPTVAL_JUSTIFICATION_X_RIGHT),
       Entry(-1, OPTVAL_JUSTIFICATION_X_NONE) >>

\* Declared without the terminating {-1, NULL} entry.
id_justification_x_sane_name_table ==
    << Entry(ID_JUSTIFICATION_X_LEFT, OPTVAL_JUSTIFICATION_X_LEFT),
       Entry(ID_JUSTIFICATION_X_CENTER, OPTVAL_JUSTIFICATION_X_CENTER),
       Entry(ID_JUSTIFICATION_X_RIGHT, OPTVAL_JUSTIFICATION_X_RIGHT),
       Entry(SANE_CAP_INACTIVE, OPTVAL_JUSTIFICATION_X_NONE) >>

\* The proto_op table with the name of the LOAD entry copied from the SCAN
\* entry above it.
proto_op_name_table_copied_name ==
    << Entry(PROTO_OP_NONE, STR_PROTO_OP_NONE),
       Entry(PROTO_OP_PRECHECK, STR_PROTO_OP_PRECHECK),
       Entry(PROTO_OP_SCAN, STR_PROTO_OP_SCAN),
       Entry(PROTO_OP_LOAD, STR_PROTO_OP_SCAN),
       Entry(PROTO_OP_CHECK, STR_PROTO_OP_CHECK),
       Entry(PROTO_OP_CLEANUP, STR_PROTO_OP_CLEANUP),
       Entry(PROTO_OP_FINISH, STR_PROTO_OP_FINISH),
       Entry(-1, NULL) >>

proto_op_name_table ==
    << Entry(PROTO_OP_NONE, STR_PROTO_OP_NONE),
       Entry(PROTO_OP_PRECHECK, STR_PROTO_OP_PRECHECK),
       Entry(PROTO_OP_SCAN, STR_PROTO_OP_SCAN),
       Entry(PROTO_OP_LOAD, STR_PROTO_OP_LOAD),
       Entry(PROTO_OP_CHECK, STR_PROTO_OP_CHECK),
       Entry(PROTO_OP_CLEANUP, STR_PROTO_OP_CLEANUP),
       Entry(PROTO_OP_FINISH, STR_PROTO_OP_FINISH),
       Entry(-1, NULL) >>

(***************************** memory ***************************************)
\* What a read of table[k] can yield.  fault: the access itself traps.
Cell(id, name) == [fault |-> FALSE, id |-> id, name |-> name]
FaultCell == [fault |-> TRUE, id |-> 0, name |-> NULL]

\* Contents that memory the array does not own may hold when read as an
\* id_name_table entry: any id and any name pointer (bounded samples).
BeyondCells ==
    {Cell(x, n) : x \in {-1, 0, 99}, n \in {NULL, STR_bogus, STR_PROTO_OP_NONE}}

\* The read table[k] (k from 0, as in the source).  Inside the declared array
\* it yields the declared entry.  Past its end the behaviour is undefined:
\* the access may trap or yield whatever lies there.
Load(tbl, k) ==
    IF k < Len(tbl)
    THEN {Cell(tbl[k + 1].id, tbl[k + 1].name)}
    ELSE IF k - Len(tbl) + 1 >= MaxOverrun
         THEN {FaultCell, Cell(-1, NULL)}
         ELSE BeyondCells \cup {FaultCell}

(***************************** state ****************************************)
VARIABLES
    pc,        \* per caller: "idle", "id_name", "id_by_name", "short", "done", "SIGSEGV"
    fn,        \* per caller: the wrapper it called last
    table,     \* per caller: the table argument of the engine call
    cmp,       \* per caller: the comparator argument of id_by_name
    arg_id,    \* per caller: the id argument
    arg_name,  \* per caller: the name argument
    i,         \* per caller: the loop index of the engine
    reads,     \* per caller: the indices of table read so far, in order
    ret_name,  \* per caller: the const char* returned
    ret_id     \* per caller: the int returned

vars == <<pc, fn, table, cmp, arg_id, arg_name, i, reads, ret_name, ret_id>>

Callers == DOMAIN pc

\* The state before any call: callers T, each holding the table pointer tbl.
InitCallers(T, tbl) ==
    /\ pc = [t \in T |-> "idle"]
    /\ fn = [t \in T |-> "none"]
    /\ table = [t \in T |-> tbl]
    /\ cmp = [t \in T |-> "none"]
    /\ arg_id = [t \in T |-> 0]
    /\ arg_name = [t \in T |-> NULL]
    /\ i = [t \in T |-> 0]
    /\ reads = [t \in T |-> <<>>]
    /\ ret_name = [t \in T |-> NULL]
    /\ ret_id = [t \in T |-> 0]

\* One caller.
Init == InitCallers({1}, <<>>)

\* The process runs: no caller has taken an access violation.
Alive == \A u \in Callers : pc[u] # "SIGSEGV"

(***************************** engine ***************************************)
\* Where the engine's return leads: id_format_short_name goes on with the
\* MIME name, every other wrapper returns the engine's result as it is.
ReturnTo(f) == IF f = "id_format_short_name" THEN "short" ELSE "done"

\* id_name with its loop started at i = 1.
call_id_name_from_1(t, id, tbl) ==
    /\ Alive
    /\ pc[t] \in {"idle", "done"}
    /\ pc' = [pc EXCEPT ![t] = "id_name"]
    /\ table' = [table EXCEPT ![t] = tbl]
    /\ cmp' = [cmp EXCEPT ![t] = "none"]
    /\ arg_id' = [arg_id EXCEPT ![t] = id]
    /\ arg_name' = [arg_name EXCEPT ![t] = NULL]
    /\ i' = [i EXCEPT ![t] = 1]
    /\ reads' = [reads EXCEPT ![t] = <<>>]
    /\ ret_name' = [ret_name EXCEPT ![t] = NULL]
    /\ ret_id' = [ret_id EXCEPT ![t] = 0]

\* Entry into id_name (id, table): i = 0.
call_id_name(t, id, tbl) ==
    /\ Alive
    /\ pc[t] \in {"idle", "done"}
    /\ pc' = [pc EXCEPT ![t] = "id_name"]
    /\ table' = [table EXCEPT ![t] = tbl]
    /\ cmp' = [cmp EXCEPT ![t] = "none"]
    /\ arg_id' = [arg_id EXCEPT ![t] = id]
    /\ arg_name' = [arg_name EXCEPT ![t] = NULL]
    /\ i' = [i EXCEPT ![t] = 0]
    /\ reads' = [reads EXCEPT ![t] = <<>>]
    /\ ret_name' = [ret_name EXCEPT ![t] = NULL]
    /\ ret_id' = [ret_id EXCEPT ![t] = 0]

\* Entry into id_by_name (name, cmp, table): i = 0.
call_id_by_name(t, name, c, tbl) ==
    /\ Alive
    /\ pc[t] \in {"idle", "done"}
    /\ pc' = [pc EXCEPT ![t] = "id_by_name"]
    /\ table' = [table EXCEPT ![t] = tbl]
    /\ cmp' = [cmp EXCEPT ![t] = c]
    /\ arg_id' = [arg_id EXCEPT ![t] = 0]
    /\ arg_name' = [arg_name EXCEPT ![t] = name]
    /\ i' = [i EXCEPT ![t] = 0]
    /\ reads' = [reads EXCEPT ![t] = <<>>]
    /\ ret_name' = [ret_name EXCEPT ![t] = NULL]
    /\ ret_id' = [ret_id EXCEPT ![t] = 0]

\* What one iteration of id_name's loop does with the entry e = table[i]:
\* the loop condition (name != NULL), the test (id == id), else i++.
id_name_iter(e, id) ==
    IF e.fault THEN [pc |-> "SIGSEGV", ret |-> NULL]
    ELSE IF e.name = NULL THEN [pc |-> "return", ret |-> NULL]
    ELSE IF e.id = id THEN [pc |-> "return", ret |-> e.name]
    ELSE [pc |-> "next", ret |-> NULL]

\* One iteration of the loop of id_name.
id_name_loop(t) ==
    /\ Alive
    /\ pc[t] = "id_name"
    /\ \E e \in Load(table[t], i[t]) :
         LET r == id_name_iter(e, arg_id[t])
         IN  /\ pc' = [pc EXCEPT ![t] =
                         IF r.pc = "return" THEN ReturnTo(fn[t])
                         ELSE IF r.pc = "next" THEN "id_name"
                         ELSE r.pc]
             /\ i' = [i EXCEPT ![t] = IF r.pc = "next" THEN @ + 1 ELSE @]
             /\ ret_name' = [ret_name EXCEPT ![t] = r.ret]
    /\ reads' = [reads EXCEPT ![t] = Append(@, i[t])]
    /\ UNCHANGED <<fn, table, cmp, arg_id, arg_name, ret_id>>

\* id_by_name's iteration with the test written cmp(...) instead of !cmp(...).
id_by_name_iter_no_negation(e, name, c) ==
    IF e.fault THEN [pc |-> "SIGSEGV", ret |-> 0]
    ELSE IF e.name = NULL THEN [pc |-> "return", ret |-> -1]
    ELSE IF CallCmp(c, name, e.name) # 0 THEN [pc |-> "return", ret |-> e.id]
    ELSE [pc |-> "next", ret |-> 0]

\* What one iteration of id_by_name's loop does with the entry e = table[i]:
\* the loop condition (name != NULL), the test (!cmp(name, e.name)), else i++.
id_by_name_iter(e, name, c) ==
    IF e.fault THEN [pc |-> "SIGSEGV", ret |-> 0]
    ELSE IF e.name = NULL THEN [pc |-> "return", ret |-> -1]
    ELSE IF CallCmp(c, name, e.name) = 0 THEN [pc |-> "return", ret |-> e.id]
    ELSE [pc |-> "next", ret |-> 0]

\* One iteration of the loop of id_by_name.
id_by_name_loop(t) ==
    /\ Alive
    /\ pc[t] = "id_by_name"
    /\ \E e \in Load(table[t], i[t]) :
         LET r == id_by_name_iter(e, arg_name[t], cmp[t])
         IN  /\ pc' = [pc EXCEPT ![t] =
                         IF r.pc = "return" THEN ReturnTo(fn[t])
                         ELSE IF r.pc = "next" THEN "id_by_name"
                         ELSE r.pc]
             /\ i' = [i EXCEPT ![t] = IF r.pc = "next" THEN @ + 1 ELSE @]
             /\ ret_id' = [ret_id EXCEPT ![t] = r.ret]
    /\ reads' = [reads EXCEPT ![t] = Append(@, i[t])]
    /\ UNCHANGED <<fn, table, cmp, arg_id, arg_name, ret_name>>

(***************************** wrappers *************************************)
id_proto_name(t, proto) ==
    /\ fn' = [fn EXCEPT ![t] = "id_proto_name"]
    /\ call_id_name(t, proto, id_proto_name_table)

id_proto_by_name(t, name) ==
    /\ fn' = [fn EXCEPT ![t] = "id_proto_by_name"]
    /\ call_id_by_name(t, name, "strcasecmp", id_proto_name_table)

id_source_sane_name(t, id) ==
    /\ fn' = [fn EXCEPT ![t] = "id_source_sane_name"]
    /\ call_id_name(t, id, id_source_sane_name_table)

id_source_by_sane_name(t, name) ==
    /\ fn' = [fn EXCEPT ![t] = "id_source_by_sane_name"]
    /\ call_id_by_name(t, name, "strcasecmp", id_source_sane_name_table)

id_colormode_sane_name(t, id) ==
    /\ fn' = [fn EXCEPT ![t] = "id_colormode_sane_name"]
    /\ call_id_name(t, id, id_colormode_sane_name_table)

id_colormode_by_sane_name(t, name) ==
    /\ fn' = [fn EXCEPT ![t] = "id_colormode_by_sane_name"]
    /\ call_id_by_name(t, name, "strcasecmp", id_colormode_sane_name_table)

id_format_mime_name(t, id) ==
    /\ fn' = [fn EXCEPT ![t] = "id_format_mime_name"]
    /\ call_id_name(t, id, id_format_mime_name_table)

id_format_by_mime_name(t, name) ==
    /\ fn' = [fn EXCEPT ![t] = "id_format_by_mime_name"]
    /\ call_id_by_name(t, name, "strcasecmp", id_format_mime_name_table)

\* id_format_short_name, first statement: mime = id_format_mime_name(id).
id_format_short_name(t, id) ==
    /\ fn' = [fn EXCEPT ![t] = "id_format_short_name"]
    /\ call_id_name(t, id, id_format_mime_name_table)

\* name = mime ? strchr(mime, '/') : NULL, the + 1 forgotten.
short_name_of_with_slash(mime) ==
    IF mime = NULL THEN {NULL}
    ELSE IF strchr(mime, 47) = 0 THEN {NULL}
    ELSE {SubSeq(mime, strchr(mime, 47), Len(mime))}

\* The values of name = mime ? (strchr(mime, '/') + 1) : NULL.  When mime
\* holds no '/', strchr returns NULL and NULL + 1 is undefined: the result
\* is some pointer that is no string of the program, or NULL.
short_name_of(mime) ==
    IF mime = NULL THEN {NULL}
    ELSE IF strchr(mime, 47) = 0 THEN {BADPTR, NULL}
    ELSE {SubSeq(mime, strchr(mime, 47) + 1, Len(mime))}

\* id_format_short_name, after the engine returned mime:
\* return name ? name : mime.
id_format_short_name_ret(t) ==
    /\ Alive
    /\ pc[t] = "short"
    /\ \E name \in short_name_of(ret_name[t]) :
         ret_name' = [ret_name EXCEPT ![t] = IF name # NULL THEN name ELSE @]
    /\ pc' = [pc EXCEPT ![t] = "done"]
    /\ UNCHANGED <<fn, table, cmp, arg_id, arg_name, i, reads, ret_id>>

id_justification_x_sane_name(t, id) ==
    /\ fn' = [fn EXCEPT ![t] = "id_justification_x_sane_name"]
    /\ call_id_name(t, id, id_justification_x_sane_name_table)

id_justification_x_by_sane_name(t, name) ==
    /\ fn' = [fn EXCEPT ![t] = "id_justification_x_by_sane_name"]
    /\ call_id_by_name(t, name, "strcasecmp", id_justification_x_sane_name_table)

proto_op_name(t, op) ==
    /\ fn' = [fn EXCEPT ![t] = "proto_op_name"]
    /\ call_id_name(t, op, proto_op_name_table)

(***************************** callers' inputs ******************************)
toupper(c) == IF c >= 97 /\ c <= 122 THEN c - 32 ELSE c
ToUpper(s) == [k \in 1..Len(s) |-> toupper(s[k])]
ToLower(s) == [k \in 1..Len(s) |-> tolower(s[k])]
\* s with the case of the letter at position p (if there is one) toggled.
Toggle(s, p) ==
    [k \in 1..Len(s) |->
        IF k # p THEN s[k]
        ELSE IF toupper(s[k]) # s[k] THEN toupper(s[k]) ELSE tolower(s[k])]

\* The names a table declares.
DeclaredNames(tbl) == {tbl[k].name : k \in 1..Len(tbl)} \ {NULL}
\* The ids of the entries that carry a name.
DeclaredIds(tbl) == {tbl[k].id : k \in {j \in 1..Len(tbl) : tbl[j].name # NULL}}

\* The case variants of s that the callers pass.
CaseVariants(s) ==
    {s, ToUpper(s), ToLower(s)} \cup {Toggle(s, p) : p \in 1..MaxToggle}

\* Ids passed to the forward wrappers: present and absent ones.
IdInputs == (-2..MaxId) \cup {SANE_CAP_INACTIVE, 99}

\* Names passed to a reverse wrapper: the declared names and case variants
\* of them, and strings no entry matches (a proper prefix, an extension,
\* the empty string, other words) with their case variants.
NameInputs(tbl) ==
    UNION {CaseVariants(n) : n \in DeclaredNames(tbl)}
    \cup {SubSeq(n, 1, Len(n) - 1) : n \in DeclaredNames(tbl)}
    \cup {n \o <<120>> : n \in DeclaredNames(tbl)}
    \cup {STR_empty, STR_bogus, ToUpper(STR_bogus), STR_PROTO_OP_NONE}

\* Inputs of the concurrent callers: a present and an absent id; the first
\* declared name, an unknown word, and the upper-case variant of each.
ProbeIds == {1, 99}
ProbeNames(tbl) ==
    {tbl[1].name, ToUpper(tbl[1].name), STR_bogus, ToUpper(STR_bogus)}

\* The ids and names a caller passes: the probes, or the full input sets.
Ids(probe) == IF probe THEN ProbeIds ELSE IdInputs
Names(probe, tbl) == IF probe THEN ProbeNames(tbl) ELSE NameInputs(tbl)

(***************************** the program **********************************)
\* Everything caller t can do next: call a wrapper with one of the inputs,
\* or go on in the engine.
Step(t, probe) ==
        \/ \E id \in Ids(probe) : id_proto_name(t, id)
        \/ \E s \in Names(probe, id_proto_name_table) : id_proto_by_name(t, s)
        \/ \E id \in Ids(probe) : id_source_sane_name(t, id)
        \/ \E s \in Names(probe, id_source_sane_name_table) : id_source_by_sane_name(t, s)
        \/ \E id \in Ids(probe) : id_colormode_sane_name(t, id)
        \/ \E s \in Names(probe, id_colormode_sane_name_table) : id_colormode_by_sane_name(t, s)
        \/ \E id \in Ids(probe) : id_format_mime_name(t, id)
        \/ \E s \in Names(probe, id_format_mime_name_table) : id_format_by_mime_name(t, s)
        \/ \E id \in Ids(probe) : id_format_short_name(t, id)
        \/ \E id \in Ids(probe) : id_justification_x_sane_name(t, id)
        \/ \E s \in Names(probe, id_justification_x_sane_name_table) :
               id_justification_x_by_sane_name(t, s)
        \/ \E id \in Ids(probe) : proto_op_name(t, id)
        \/ id_name_loop(t)
        \/ id_by_name_loop(t)
        \/ id_format_short_name_ret(t)

\* One caller, the full input sets.
Next == Step(1, FALSE)

Spec == Init /\ [][Next]_vars

\* NumThreads callers running the wrappers with no synchronization.
InitConc == InitCallers(1..NumThreads, <<>>)

NextConc == \E t \in 1..NumThreads : Step(t, TRUE)

SpecConc == InitConc /\ [][NextConc]_vars

(***************************** the engine alone *****************************)
\* "a", "A", "b", "c"
STR_a == <<97>>
STR_A == <<65>>
STR_b == <<98>>
STR_c == <<99>>

\* Sentinel-terminated tables of up to MaxLen entries; ids and names may
\* repeat, and names may differ in case only.
EngineEntries == {Entry(x, n) : x \in {0, 1}, n \in {STR_a, STR_A, STR_b}}
EngineTables ==
    {tb \o <<Entry(-1, NULL)>> :
        tb \in UNION {[1..n -> EngineEntries] : n \in 0..MaxLen}}

\* A direct call id_name(id, table) with the caller's table.
engine_id_name(t, id) ==
    /\ fn' = [fn EXCEPT ![t] = "id_name"]
    /\ call_id_name(t, id, table[t])

\* A direct call id_by_name(name, cmp, table) with the caller's table.
engine_id_by_name(t, name, c) ==
    /\ fn' = [fn EXCEPT ![t] = "id_by_name"]
    /\ call_id_by_name(t, name, c, table[t])

InitEngine == \E tbl \in EngineTables : InitCallers({1}, tbl)

NextEngine ==
    \/ \E id \in {-1, 0, 1, 2} : engine_id_name(1, id)
    \/ \E name \in {STR_a, STR_A, STR_b, STR_c}, c \in {"strcasecmp", "strcmp"} :
           engine_id_by_name(1, name, c)
    \/ id_name_loop(1)
    \/ id_by_name_loop(1)

SpecEngine == InitEngine /\ [][NextEngine]_vars

(***************************** the claims ***********************************)
ForwardFns ==
    {"id_proto_name", "id_source_sane_name", "id_colormode_sane_name",
     "id_format_mime_name", "id_justification_x_sane_name", "proto_op_name"}

ReverseFns ==
    {"id_proto_by_name", "id_source_by_sane_name", "id_colormode_by_sane_name",
     "id_format_by_mime_name", "id_justification_x_by_sane_name"}

\* The table of the domain wrapper f belongs to.
DomainTable(f) ==
    CASE f \in {"id_proto_name", "id_proto_by_name"} -> id_proto_name_table
      [] f \in {"id_source_sane_name", "id_source_by_sane_name"} ->
             id_source_sane_name_table
      [] f \in {"id_colormode_sane_name", "id_colormode_by_sane_name"} ->
             id_colormode_sane_name_table
      [] f \in {"id_format_mime_name", "id_format_by_mime_name",
                "id_format_short_name"} -> id_format_mime_name_table
      [] f \in {"id_justification_x_sane_name", "id_justification_x_by_sane_name"} ->
             id_justification_x_sane_name_table
      [] f = "proto_op_name" -> proto_op_name_table
      [] OTHER -> <<>>

\* The (id, name) entries a table declares (the terminating entry is none).
Declared(tbl) == {tbl[k] : k \in {j \in 1..Len(tbl) : tbl[j].name # NULL}}

\* Equality of two strings up to the case of ASCII letters.
SameIgnoringCase(a, b) == ToLower(a) = ToLower(b)

\* The call of caller t is over: it returned, or the process was killed.
Finished(t) == pc[t] \in {"done", "SIGSEGV"}

\* Every read of caller t so far was of an entry its domain's table declares.
ReadsInTable(t) ==
    \A k \in 1..Len(reads[t]) : reads[t][k] < Len(DomainTable(fn[t]))

\* C1: round trip.  In each of the five domains with a reverse lookup, for
\* every declared entry (id, name): the forward wrapper called with id
\* returns name, and the reverse wrapper called with name returns id.
C1_RoundTrip ==
    \A t \in Callers :
        /\ (fn[t] \in ForwardFns \ {"proto_op_name"} /\ Finished(t)) =>
             \A e \in Declared(DomainTable(fn[t])) :
                 arg_id[t] = e.id => pc[t] = "done" /\ ret_name[t] = e.name
        /\ (fn[t] \in ReverseFns /\ Finished(t)) =>
             \A e \in Declared(DomainTable(fn[t])) :
                 arg_name[t] = e.name => pc[t] = "done" /\ ret_id[t] = e.id

\* C1's case: the reverse lookup of the last justification entry's name has
\* returned that entry's id.
C1_Witness ==
    /\ pc[1] = "done"
    /\ fn[1] = "id_justification_x_by_sane_name"
    /\ arg_name[1] = OPTVAL_JUSTIFICATION_X_NONE
    /\ ret_id[1] = SANE_CAP_INACTIVE

\* C2: a reverse wrapper called with a string that equals no declared name
\* of its domain, ignoring case, returns -1, which is the id of no declared
\* entry, and the scan reads no entry outside the declared table.
C2_UnknownNameIsSentinel ==
    \A t \in Callers :
        (fn[t] \in ReverseFns
           /\ \A e \in Declared(DomainTable(fn[t])) :
                  ~SameIgnoringCase(arg_name[t], e.name)) =>
            /\ ReadsInTable(t)
            /\ pc[t] # "SIGSEGV"
            /\ pc[t] = "done" => ret_id[t] = -1
            /\ \A e \in Declared(DomainTable(fn[t])) : e.id # -1

\* C3: a forward wrapper of any of the six domains called with an id that no
\* declared entry carries returns NULL, and the scan reads no entry outside
\* the declared table.
C3_AbsentIdIsNull ==
    \A t \in Callers :
        (fn[t] \in ForwardFns
           /\ \A e \in Declared(DomainTable(fn[t])) : arg_id[t] # e.id) =>
            /\ ReadsInTable(t)
            /\ pc[t] # "SIGSEGV"
            /\ pc[t] = "done" => ret_name[t] = NULL

\* "jpeg"
STR_jpeg ==
    <<106, 112, 101, 103>>
\* "tiff"
STR_tiff ==
    <<116, 105, 102, 102>>
\* "png"
STR_png ==
    <<112, 110, 103>>
\* "pdf"
STR_pdf ==
    <<112, 100, 102>>
\* "bmp"
STR_bmp ==
    <<98, 109, 112>>

\* C5: id_format_short_name of a declared format is the text after the
\* first '/' of its MIME name ("jpeg", "tiff", "png", "pdf", "bmp"), of an id
\* without a MIME name it is NULL, and no declared MIME name lacks the '/'.
C5_ShortName ==
    /\ \A e \in Declared(id_format_mime_name_table) :
           \E k \in 1..(Len(e.name) - 1) : e.name[k] = 47
    /\ \A t \in Callers :
           (fn[t] = "id_format_short_name" /\ pc[t] = "done") =>
               /\ arg_id[t] = ID_FORMAT_JPEG => ret_name[t] = STR_jpeg
               /\ arg_id[t] = ID_FORMAT_TIFF => ret_name[t] = STR_tiff
               /\ arg_id[t] = ID_FORMAT_PNG => ret_name[t] = STR_png
               /\ arg_id[t] = ID_FORMAT_PDF => ret_name[t] = STR_pdf
               /\ arg_id[t] = ID_FORMAT_BMP => ret_name[t] = STR_bmp
               /\ arg_id[t] \notin {ID_FORMAT_JPEG, ID_FORMAT_TIFF, ID_FORMAT_PNG,
                                    ID_FORMAT_PDF, ID_FORMAT_BMP} =>
                      ret_name[t] = NULL
               /\ ret_name[t] # BADPTR

\* C5's case: the short name of PDF has been returned.
C5_Witness ==
    /\ pc[1] = "done"
    /\ fn[1] = "id_format_short_name"
    /\ arg_id[1] = ID_FORMAT_PDF
    /\ ret_name[1] = STR_pdf

\* C6: id_justification_x_sane_name(SANE_CAP_INACTIVE) returns the "none"
\* name: none of LEFT, CENTER, RIGHT, which precede it, has that id.
C6_InactiveIsNone ==
    /\ SANE_CAP_INACTIVE \notin
           {ID_JUSTIFICATION_X_LEFT, ID_JUSTIFICATION_X_CENTER, ID_JUSTIFICATION_X_RIGHT}
    /\ \A t \in Callers :
           (fn[t] = "id_justification_x_sane_name" /\ arg_id[t] = SANE_CAP_INACTIVE
              /\ Finished(t)) =>
               pc[t] = "done" /\ ret_name[t] = OPTVAL_JUSTIFICATION_X_NONE

\* C6's case: the lookup of the inactive marker has returned, having read
\* the three entries before the last one.
C6_Witness ==
    /\ pc[1] = "done"
    /\ fn[1] = "id_justification_x_sane_name"
    /\ arg_id[1] = SANE_CAP_INACTIVE
    /\ reads[1] = <<0, 1, 2, 3>>

\* C8: proto_op_name of each of the seven phases returns the phase's own
\* identifier, distinct phases have distinct names, and the proto_op table is
\* never the table of a reverse lookup.
C8_ProtoOpName ==
    /\ \A t \in Callers :
           (fn[t] = "proto_op_name" /\ pc[t] = "done") =>
               /\ arg_id[t] = PROTO_OP_NONE => ret_name[t] = STR_PROTO_OP_NONE
               /\ arg_id[t] = PROTO_OP_PRECHECK => ret_name[t] = STR_PROTO_OP_PRECHECK
               /\ arg_id[t] = PROTO_OP_SCAN => ret_name[t] = STR_PROTO_OP_SCAN
               /\ arg_id[t] = PROTO_OP_LOAD => ret_name[t] = STR_PROTO_OP_LOAD
               /\ arg_id[t] = PROTO_OP_CHECK => ret_name[t] = STR_PROTO_OP_CHECK
               /\ arg_id[t] = PROTO_OP_CLEANUP => ret_name[t] = STR_PROTO_OP_CLEANUP
               /\ arg_id[t] = PROTO_OP_FINISH => ret_name[t] = STR_PROTO_OP_FINISH
    /\ \A t, u \in Callers :
           (fn[t] = "proto_op_name" /\ fn[u] = "proto_op_name"
              /\ pc[t] = "done" /\ pc[u] = "done"
              /\ arg_id[t] \in PROTO_OP_NONE..PROTO_OP_FINISH
              /\ arg_id[u] \in PROTO_OP_NONE..PROTO_OP_FINISH
              /\ arg_id[t] # arg_id[u]) => ret_name[t] # ret_name[u]
    /\ Cardinality({e.name : e \in Declared(proto_op_name_table)}) = 7
    /\ \A t \in Callers :
           (pc[t] # "idle" /\ table[t] = proto_op_name_table) =>
               fn[t] = "proto_op_name" /\ cmp[t] = "none"

\* C8's case: the name of the scan phase has been returned.
C8_Witness ==
    /\ pc[1] = "done"
    /\ fn[1] = "proto_op_name"
    /\ arg_id[1] = PROTO_OP_SCAN
    /\ ret_name[1] = STR_PROTO_OP_SCAN

\* C9: in every call of a wrapper the scan reads the indices 0, 1, 2, ... in
\* this order, stops at the first match or at the entry whose name is NULL,
\* and reads no index greater than that of the last declared entry; so a
\* call makes at most as many reads as the table declares entries.
C9_ScanWithinTable ==
    \A t \in Callers :
        fn[t] \in ForwardFns \cup ReverseFns \cup {"id_format_short_name"} =>
            /\ \A k \in 1..Len(reads[t]) :
                   /\ reads[t][k] = k - 1
                   /\ reads[t][k] <= Len(DomainTable(fn[t])) - 1
            /\ Len(reads[t]) <= Len(DomainTable(fn[t]))
            /\ pc[t] # "SIGSEGV"
            /\ pc[t] \in {"done", "short"} =>
                   LET last == DomainTable(fn[t])[Len(reads[t])]
                   IN  \/ last.name = NULL
                       \/ cmp[t] = "none" /\ last.id = arg_id[t]
                       \/ cmp[t] # "none" /\ SameIgnoringCase(arg_name[t], last.name)

\* C4: a reverse wrapper returns the same result for two strings that differ
\* only in the case of ASCII letters; in particular every case variant of a
\* declared name yields that entry's id.
C4_CaseInsensitive ==
    /\ \A t \in Callers :
           (fn[t] \in ReverseFns /\ Finished(t)) =>
               \A e \in Declared(DomainTable(fn[t])) :
                   SameIgnoringCase(arg_name[t], e.name) =>
                       pc[t] = "done" /\ ret_id[t] = e.id
    /\ \A t, u \in Callers :
           (fn[t] \in ReverseFns /\ fn[u] = fn[t] /\ pc[t] = "done" /\ pc[u] = "done"
              /\ SameIgnoringCase(arg_name[t], arg_name[u])) =>
               ret_id[t] = ret_id[u]

\* C7: the result of a call depends on the wrapper and its argument alone,
\* whatever the other callers do meanwhile: two finished calls of the same
\* wrapper with the same argument have returned the same value.
C7_ResultDependsOnArgumentOnly ==
    \A t, u \in Callers :
        (fn[t] # "none" /\ fn[u] = fn[t] /\ pc[t] = "done" /\ pc[u] = "done"
           /\ arg_id[t] = arg_id[u] /\ arg_name[t] = arg_name[u]) =>
            ret_name[t] = ret_name[u] /\ ret_id[t] = ret_id[u]

\* The least element of a non-empty set of numbers.
Least(S) == CHOOSE k \in S : \A j \in S : k <= j

\* The positions (from 1) of the entries of caller t's table, the sentinel
\* excluded, that match its argument.
Matches(t) ==
    {k \in 1..(Len(table[t]) - 1) :
        IF fn[t] = "id_name"
        THEN table[t][k].id = arg_id[t]
        ELSE CallCmp(cmp[t], arg_name[t], table[t][k].name) = 0}

\* C10: on a sentinel-terminated table, duplicates allowed, id_name returns
\* the name of the lowest-index entry with the id and id_by_name the id of the
\* lowest-index entry for which cmp returns 0; no entry after the first match
\* is read; without a match the result is NULL, resp. -1, also for id -1.
C10_FirstMatch ==
    \A t \in Callers :
        /\ pc[t] # "SIGSEGV"
        /\ (fn[t] \in {"id_name", "id_by_name"} /\ pc[t] = "done") =>
             IF Matches(t) = {}
             THEN /\ ret_name[t] = NULL
                  /\ fn[t] = "id_by_name" => ret_id[t] = -1
                  /\ reads[t] = [k \in 1..Len(table[t]) |-> k - 1]
             ELSE /\ fn[t] = "id_name" =>
                         ret_name[t] = table[t][Least(Matches(t))].name
                  /\ fn[t] = "id_by_name" =>
                         ret_id[t] = table[t][Least(Matches(t))].id
                  /\ reads[t] = [k \in 1..Least(Matches(t)) |-> k - 1]

\* C10's case: id_name has returned on a table whose first two entries carry
\* the id asked for, with different names.
C10_Witness ==
    /\ pc[1] = "done"
    /\ fn[1] = "id_name"
    /\ Len(table[1]) >= 3
    /\ table[1][1].id = arg_id[1]
    /\ table[1][2].id = arg_id[1]
    /\ table[1][1].name # table[1][2].name
    /\ ret_name[1] = table[1][1].name

=============================================================================
